---- MODULE Spec2Model ----
(***************************************************************************)
(* AmqpMessageQueue (src/src/mq.ts): enqueue() and listen() of one or two  *)
(* queue instances talking to one AMQP 0-9-1 broker.  The client side is   *)
(* translated from mq.ts; the broker side (queue declare, publish, TTL and *)
(* dead-lettering, prefetch, consume, ack, cancel, channel close) follows  *)
(* the protocol operations mq.ts calls.  Spec has the calls of the         *)
(* repository's test; EnqueueSpec has enqueue() alone, with messages that  *)
(* cannot be serialized and a broker that already holds the main queue     *)
(* with another durability; ListenSpec has listen() alone, on a main queue *)
(* that receives a body that is not JSON; LiveSpec adds the broker's       *)
(* replies as fairness.                                                    *)
(***************************************************************************)
EXTENDS Integers, Sequences, FiniteSets, TLC

\* ------------------------------------------------------------------ bounds
NumEnqueue == 2     \* enqueue() calls made over a run
NumListen == 2      \* listen() calls made over a run
MaxTime == 2        \* the clock runs 0..MaxTime (milliseconds)
MaxDelay == 2       \* delays range over -1..MaxDelay milliseconds, or absent

Calls == 1..NumEnqueue
Sessions == 1..NumListen
\* the instance whose enqueue() is called (mq of the test; mq2 only listens)
Instances == {"mq"}
\* the sessions share one AbortSignal, as in the repository's test; a session
\* without a signal behaves as one whose signal never aborts
Signals == {"controller"}
NoSignal == "none"
\* the message of the k-th enqueue() call: the calls carry different messages
Payload(e) == <<"message", e>>
\* a message JSON.stringify cannot serialize: one that refers to itself
Cyclic(e) == <<"cyclic", e>>
\* the messages the k-th call may be given
Messages(e) == {Payload(e), Cyclic(e)}
\* options?.delay?.total("millisecond"): <<>> when absent, <<d>> otherwise
Delays == {<<>>} \cup {<<d>> : d \in (-1)..MaxDelay}
\* what a handler does when called: return, throw, or return a promise, which
\* later fulfils or rejects
HandlerKinds == {"sync_ok", "sync_throw", "async"}
Outcomes == {"fulfilled", "rejected"}

\* ----------------------------------------------------- construction options
QueueName == <<"fedify_queue">>
DelayedQueuePrefix == <<"fedify_delayed_">>
Durable == TRUE

\* --------------------------------------------------------- pure functions
DigitChars == <<"0", "1", "2", "3", "4", "5", "6", "7", "8", "9">>

RECURSIVE ToDecimal(_)
ToDecimal(n) ==
  IF n < 10 THEN <<DigitChars[n + 1]>>
  ELSE ToDecimal(n \div 10) \o <<DigitChars[(n % 10) + 1]>>

\* a delay string that does not depend on the delay
DelayStrFixed(d) == <<"0">>

\* delay.toLocaleString("en", { useGrouping: false }) of a positive integer
DelayStr(d) == ToDecimal(d)

\* a test that takes a delay of zero for a delay
IsDelayedFromZero(delay) == delay # <<>> /\ delay[1] >= 0

\* the negation of the test `delay == null || delay <= 0`
IsDelayed(delay) == delay # <<>> /\ delay[1] > 0

\* the queue enqueue() publishes to
TargetQueue(delay) ==
  IF IsDelayed(delay) THEN DelayedQueuePrefix \o DelayStr(delay[1])
  ELSE QueueName

\* the options of the two assertQueue calls (absent options are <<>>)
MainQueueArgs ==
  [durable |-> Durable, autoDelete |-> FALSE, deadLetterExchange |-> <<>>,
   deadLetterRoutingKey |-> <<>>, messageTtl |-> <<>>]

\* a delay queue whose TTL is one millisecond short of the delay
DelayQueueArgsShortTtl(delay) ==
  [durable |-> Durable, autoDelete |-> TRUE, deadLetterExchange |-> <<"">>,
   deadLetterRoutingKey |-> QueueName, messageTtl |-> <<delay[1] - 1>>]

DelayQueueArgs(delay) ==
  [durable |-> Durable, autoDelete |-> TRUE, deadLetterExchange |-> <<"">>,
   deadLetterRoutingKey |-> QueueName, messageTtl |-> <<delay[1]>>]

\* JSON.stringify / JSON.parse of an array payload: the text is the elements
\* between brackets
JSONStringify(v) == <<"[">> \o v \o <<"]">>
\* JSON.stringify throws a TypeError on a value that refers to itself
CanStringify(v) == v[1] # "cyclic"
JSONParse(text) == SubSeq(text, 2, Len(text) - 1)
\* JSON.parse throws a SyntaxError on a text that is not JSON
CanParse(text) ==
  Len(text) >= 2 /\ text[1] = "[" /\ text[Len(text)] = "]"

\* channel.prefetch(1)
PrefetchCount == 1

\* a callback that takes no handler result for a promise
ResultNeverPromise(kind) == FALSE

\* `result instanceof Promise`
ResultIsPromise(kind) == kind = "async"

\* -------------------------------------------------------------- the state
VARIABLES
  now,            \* the clock
  senderChannel,  \* #senderChannel of each instance: 0 (unset) or a channel
  enq,            \* each enqueue() call: where it is (pc "done": its
                  \* promise has fulfilled; "typeError", "channelError": it
                  \* has rejected) and its arguments
  channels,       \* the publish channels created, each with the frames it
                  \* has sent that the broker has not yet processed, whether
                  \* the broker has closed it, and the call that created it
  queues,         \* the broker's queues: name -> [args, msgs]
  lis,            \* each listen() call: where it is, its channel's state,
                  \* and (history) the messages whose handler was pending
                  \* when its signal aborted and that are not yet acknowledged
  consumers,      \* the consumer tags subscribed at the broker
  unacked,        \* per listen channel: deliveries not yet acknowledged
  running,        \* per session: messages whose handler promise is pending
  completed,      \* per session: <<message, outcome>> of finished handlers
  acked,          \* per session: messages it has acknowledged
  aborted,        \* per signal: has abort() been called
  invocations,    \* history: every handler invocation [s, id, value]
  published       \* history: every sendToQueue [id, queue, chan, inst]

vars == <<now, senderChannel, enq, channels, queues, lis, consumers, unacked,
          running, completed, acked, aborted, invocations, published>>

NoMsg == [id |-> 0, content |-> <<>>, exp |-> 0]

Init ==
  /\ now = 0
  /\ senderChannel = [i \in Instances |-> 0]
  /\ enq = [e \in Calls |->
             [pc |-> "idle", payload |-> <<>>, delay |-> <<>>, inst |-> "",
              chan |-> 0, at |-> 0]]
  /\ channels = <<>>
  /\ queues = <<>>
  /\ lis = [s \in Sessions |->
             [pc |-> "idle", sig |-> NoSignal, open |-> FALSE, prefetch |-> 0,
              tag |-> 0, cancelTag |-> 0, cancelSent |-> FALSE,
              cancelOk |-> FALSE, closeSent |-> FALSE, closed |-> FALSE,
              resolved |-> FALSE, inflight |-> {}]]
  /\ consumers = {}
  /\ unacked = [s \in Sessions |-> {}]
  /\ running = [s \in Sessions |-> {}]
  /\ completed = [s \in Sessions |-> {}]
  /\ acked = [s \in Sessions |-> {}]
  /\ aborted = [g \in Signals |-> FALSE]
  /\ invocations = {}
  /\ published = {}

\* ------------------------------------------------------------- the broker
Exists(q) == q \in DOMAIN queues

\* queue.declare: creates the queue when it does not exist
Declare(qs, q, args) ==
  IF q \in DOMAIN qs THEN qs
  ELSE [n \in DOMAIN qs \cup {q} |->
         IF n = q THEN [args |-> args, msgs |-> <<>>] ELSE qs[n]]

\* queue.declare of an existing queue with other arguments is refused
\* (406 PRECONDITION_FAILED) and the broker closes the channel
Conflicts(qs, q, args) == q \in DOMAIN qs /\ qs[q].args # args

\* a message entering queue q at time t expires after the queue's TTL
Stamp(qs, q, m, t) ==
  [m EXCEPT !.exp = IF qs[q].args.messageTtl = <<>> THEN 0
                    ELSE t + qs[q].args.messageTtl[1]]

\* routing through the default exchange: to the queue of that name, or
\* nowhere when there is none
Route(qs, q, m, t) ==
  IF q \in DOMAIN qs
  THEN [qs EXCEPT ![q].msgs = Append(@, Stamp(qs, q, m, t))]
  ELSE qs

RECURSIVE SetToSeq(_)
SetToSeq(S) ==
  IF S = {} THEN <<>>
  ELSE LET x == CHOOSE y \in S : TRUE IN <<x>> \o SetToSeq(S \ {x})

\* closing a channel puts its unacknowledged deliveries back at the head
Requeue(qs, q, ms) ==
  IF q \in DOMAIN qs THEN [qs EXCEPT ![q].msgs = SetToSeq(ms) \o @] ELSE qs

\* ---------------------------------------------------------------- enqueue
DeclareFrame(q, args, waiter) ==
  [op |-> "declare", queue |-> q, args |-> args, waiter |-> waiter,
   msg |-> NoMsg]

PublishFrame(q, e, payload) ==
  [op |-> "publish", queue |-> q, args |-> MainQueueArgs, waiter |-> 0,
   msg |-> [id |-> e, content |-> JSONStringify(payload), exp |-> 0]]

\* lines 106-113 of enqueue() on channel c of the channel list chs:
\* JSON.stringify(message) throws on an unserializable message, sendToQueue
\* throws on a closed channel, otherwise the publish is sent and enqueue()
\* fulfils
SendToQueue(e, c, r, q, chs) ==
  IF ~CanStringify(r.payload)
  THEN /\ enq' = [enq EXCEPT ![e] = [r EXCEPT !.pc = "typeError", !.chan = c]]
       /\ channels' = chs
       /\ UNCHANGED published
  ELSE IF chs[c].closed
  THEN /\ enq' = [enq EXCEPT ![e] = [r EXCEPT !.pc = "channelError",
                                              !.chan = c]]
       /\ channels' = chs
       /\ UNCHANGED published
  ELSE /\ channels' = [chs EXCEPT
                         ![c].out = Append(@, PublishFrame(q, e, r.payload))]
       /\ published' = published \cup
                         {[id |-> e, queue |-> q, chan |-> c, inst |-> r.inst]}
       /\ enq' = [enq EXCEPT ![e] = [r EXCEPT !.pc = "done", !.chan = c]]

\* an enqueue() that sends the delay queue's declaration and goes on to
\* publish without awaiting the reply
AfterGetSenderChannelNoAwait(e, c, r, chs) ==
  IF IsDelayed(r.delay)
  THEN SendToQueue(e, c, r, TargetQueue(r.delay),
                   [chs EXCEPT
                      ![c].out = Append(@, DeclareFrame(TargetQueue(r.delay),
                                                      DelayQueueArgs(r.delay), 0))])
  ELSE SendToQueue(e, c, r, TargetQueue(r.delay), chs)

\* enqueue() once #getSenderChannel() has returned channel c, on the channel
\* list chs: lines 91-113 up to the next await; assertQueue on a closed
\* channel rejects
AfterGetSenderChannel(e, c, r, chs) ==
  IF IsDelayed(r.delay)
  THEN IF chs[c].closed
       THEN /\ enq' = [enq EXCEPT ![e] = [r EXCEPT !.pc = "channelError",
                                                   !.chan = c]]
            /\ channels' = chs
            /\ UNCHANGED published
       ELSE /\ channels' = [chs EXCEPT
                              ![c].out = Append(@, DeclareFrame(TargetQueue(r.delay),
                                                              DelayQueueArgs(r.delay), e))]
            /\ enq' = [enq EXCEPT ![e] = [r EXCEPT !.pc = "assertQueue",
                                                   !.chan = c]]
            /\ UNCHANGED published
  ELSE SendToQueue(e, c, r, TargetQueue(r.delay), chs)

\* enqueue(message, options) with message v: #getSenderChannel() returns the
\* cached channel or starts createChannel()
Enqueue(e, i, d, v) ==
  /\ enq[e].pc = "idle"
  /\ IF e = 1 THEN TRUE ELSE enq[e - 1].pc # "idle"
  /\ LET r == [enq[e] EXCEPT !.payload = v, !.delay = d, !.inst = i,
                                !.at = IF IsDelayed(d) THEN now ELSE 0]
     IN IF senderChannel[i] # 0
        THEN AfterGetSenderChannel(e, senderChannel[i], r, channels)
        ELSE /\ enq' = [enq EXCEPT ![e] = [r EXCEPT !.pc = "createChannel"]]
             /\ UNCHANGED <<channels, published>>
  /\ UNCHANGED <<now, senderChannel, queues, lis, consumers, unacked, running,
                 completed, acked, aborted, invocations>>

\* enqueue(message, options) with the message of the call
EnqueueCall(e, i, d) == Enqueue(e, i, d, Payload(e))

\* createChannel() of #getSenderChannel() has returned: cache the channel,
\* start #prepareQueue(channel) without awaiting it, go on with enqueue()
SenderChannelCreated(e) ==
  /\ enq[e].pc = "createChannel"
  /\ LET c == Len(channels) + 1
         chs == Append(channels,
                       [inst |-> enq[e].inst,
                        out |-> <<DeclareFrame(QueueName, MainQueueArgs, 0)>>,
                        closed |-> FALSE, creator |-> e])
     IN /\ senderChannel' = [senderChannel EXCEPT ![enq[e].inst] = c]
        /\ AfterGetSenderChannel(e, c, enq[e], chs)
  /\ UNCHANGED <<now, queues, lis, consumers, unacked, running, completed,
                 acked, aborted, invocations>>

\* the calls that await the reply to a frame among fs
Waiters(fs) == {fs[k].waiter : k \in DOMAIN fs} \ {0}

\* the broker processes the next frame of publish channel c.  A declare it
\* refuses closes the channel: the frames behind it are dropped and the
\* calls awaiting a reply on the channel reject.  The reply to an awaited
\* assertQueue resumes the enqueue() that waits for it.
BrokerFrame(c) ==
  /\ c \in DOMAIN channels
  /\ channels[c].out # <<>>
  /\ LET f == Head(channels[c].out)
         rest == [channels EXCEPT ![c].out = Tail(@)]
     IN CASE f.op = "declare" /\ Conflicts(queues, f.queue, f.args) ->
               /\ channels' = [channels EXCEPT ![c].out = <<>>,
                                               ![c].closed = TRUE]
               /\ enq' = [e \in Calls |->
                            IF e \in Waiters(channels[c].out)
                            THEN [enq[e] EXCEPT !.pc = "channelError"]
                            ELSE enq[e]]
               /\ UNCHANGED <<queues, published>>
          [] f.op = "declare" /\ ~Conflicts(queues, f.queue, f.args)
               /\ f.waiter = 0 ->
               /\ queues' = Declare(queues, f.queue, f.args)
               /\ channels' = rest
               /\ UNCHANGED <<enq, published>>
          [] f.op = "declare" /\ ~Conflicts(queues, f.queue, f.args)
               /\ f.waiter # 0 ->
               /\ queues' = Declare(queues, f.queue, f.args)
               /\ SendToQueue(f.waiter, c, enq[f.waiter], f.queue, rest)
          [] OTHER ->
               /\ queues' = Route(queues, f.queue, f.msg, now)
               /\ channels' = rest
               /\ UNCHANGED <<enq, published>>
  /\ UNCHANGED <<now, senderChannel, lis, consumers, unacked, running,
                 completed, acked, aborted, invocations>>

\* ----------------------------------------------------------------- listen
\* listen(handler, options): createChannel() is started
ListenCall(s, g) ==
  /\ lis[s].pc = "idle"
  /\ IF s = 1 THEN TRUE ELSE lis[s - 1].pc # "idle"
  /\ lis' = [lis EXCEPT ![s].pc = "createChannel", ![s].sig = g]
  /\ UNCHANGED <<now, senderChannel, enq, channels, queues, consumers, unacked,
                 running, completed, acked, aborted, invocations, published>>

\* the channel is there: #prepareQueue(channel) is awaited
ListenChannelCreated(s) ==
  /\ lis[s].pc = "createChannel"
  /\ lis' = [lis EXCEPT ![s].pc = "assertQueue", ![s].open = TRUE]
  /\ UNCHANGED <<now, senderChannel, enq, channels, queues, consumers, unacked,
                 running, completed, acked, aborted, invocations, published>>

\* the main queue is declared: channel.prefetch(1) is awaited
ListenQueueDeclared(s) ==
  /\ lis[s].pc = "assertQueue"
  /\ queues' = Declare(queues, QueueName, MainQueueArgs)
  /\ lis' = [lis EXCEPT ![s].pc = "prefetch"]
  /\ UNCHANGED <<now, senderChannel, enq, channels, consumers, unacked,
                 running, completed, acked, aborted, invocations, published>>

\* a listen() that goes on to consume without setting the prefetch limit
ListenPrefetchSkipped(s) ==
  /\ lis[s].pc = "prefetch"
  /\ lis' = [lis EXCEPT ![s].pc = "consume"]
  /\ UNCHANGED <<now, senderChannel, enq, channels, queues, consumers, unacked,
                 running, completed, acked, aborted, invocations, published>>

\* the prefetch limit is set: channel.consume(queue, callback) is awaited
ListenPrefetchOk(s) ==
  /\ lis[s].pc = "prefetch"
  /\ lis' = [lis EXCEPT ![s].pc = "consume", ![s].prefetch = PrefetchCount]
  /\ UNCHANGED <<now, senderChannel, enq, channels, queues, consumers, unacked,
                 running, completed, acked, aborted, invocations, published>>

\* a listen() that, on registering its abort listener, finds the signal
\* already aborted and runs the listener at once
ListenConsumeOkAbortCheck(s) ==
  /\ lis[s].pc = "consume"
  /\ consumers' = consumers \cup {s}
  /\ lis' = [lis EXCEPT
       ![s] = IF aborted[lis[s].sig]
              THEN [@ EXCEPT !.pc = "cancel", !.tag = s, !.cancelSent = TRUE,
                             !.cancelTag = s]
              ELSE [@ EXCEPT !.pc = "subscribed", !.tag = s]]
  /\ UNCHANGED <<now, senderChannel, enq, channels, queues, unacked, running,
                 completed, acked, aborted, invocations, published>>

\* the consumer is subscribed under the broker's tag; listen() goes on to
\* register its abort listener on options.signal
ListenConsumeOk(s) ==
  /\ lis[s].pc = "consume"
  /\ consumers' = consumers \cup {s}
  /\ lis' = [lis EXCEPT ![s].pc = "subscribed", ![s].tag = s]
  /\ UNCHANGED <<now, senderChannel, enq, channels, queues, unacked, running,
                 completed, acked, aborted, invocations, published>>

\* an abort listener that passes something else than the consumer's tag
CancelledTagWrong(l) == 0

\* the tag the abort listener passes to channel.cancel
CancelledTag(l) == l.tag

\* an abort listener that calls channel.close() without waiting for the
\* cancel to be acknowledged
AbortListenerNoWait(l) ==
  [l EXCEPT !.pc = "close", !.cancelSent = TRUE, !.cancelTag = CancelledTag(l),
            !.closeSent = TRUE]

\* the abort listener of one session: channel.cancel(reply.consumerTag)
AbortListener(l) ==
  [l EXCEPT !.pc = "cancel", !.cancelSent = TRUE, !.cancelTag = CancelledTag(l)]

\* controller.abort(): the listeners registered on the signal run
Abort(g) ==
  /\ ~aborted[g]
  /\ aborted' = [aborted EXCEPT ![g] = TRUE]
  /\ lis' = [s \in Sessions |->
              IF lis[s].sig = g /\ lis[s].pc = "subscribed"
              THEN [AbortListener(lis[s]) EXCEPT !.inflight = running[s]]
              ELSE lis[s]]
  /\ UNCHANGED <<now, senderChannel, enq, channels, queues, consumers, unacked,
                 running, completed, acked, invocations, published>>

\* the broker has cancelled the consumer of the given tag: channel.close()
CancelOk(s) ==
  /\ lis[s].pc = "cancel"
  /\ consumers' = consumers \ {lis[s].cancelTag}
  /\ lis' = [lis EXCEPT ![s].pc = "close", ![s].cancelOk = TRUE,
                        ![s].closeSent = TRUE]
  /\ UNCHANGED <<now, senderChannel, enq, channels, queues, unacked, running,
                 completed, acked, aborted, invocations, published>>

\* a close whose completion does not call resolve()
CloseOkNoResolve(s) ==
  /\ lis[s].pc = "close"
  /\ consumers' = consumers \ {lis[s].tag}
  /\ queues' = Requeue(queues, QueueName, unacked[s])
  /\ unacked' = [unacked EXCEPT ![s] = {}]
  /\ lis' = [lis EXCEPT ![s].pc = "closed", ![s].open = FALSE,
                        ![s].closed = TRUE]
  /\ UNCHANGED <<now, senderChannel, enq, channels, running, completed, acked,
                 aborted, invocations, published>>

\* the broker has closed the channel (its consumers go, its unacknowledged
\* deliveries return to the queue): resolve()
CloseOk(s) ==
  /\ lis[s].pc = "close"
  /\ consumers' = consumers \ {lis[s].tag}
  /\ queues' = Requeue(queues, QueueName, unacked[s])
  /\ unacked' = [unacked EXCEPT ![s] = {}]
  /\ lis' = [lis EXCEPT ![s].pc = "resolved", ![s].open = FALSE,
                        ![s].closed = TRUE, ![s].resolved = TRUE]
  /\ UNCHANGED <<now, senderChannel, enq, channels, running, completed, acked,
                 aborted, invocations, published>>

\* the broker delivers the head of the main queue to a subscribed consumer
\* within its prefetch limit, and the consume callback runs on it: when
\* JSON.parse throws on the content, the callback ends there; otherwise the
\* handler is called with the parsed content; when it throws, the callback
\* ends there; when its result is a Promise, the acknowledgment is left to
\* the promise's finally(); otherwise the message is acknowledged at once
Deliver(s, kind) ==
  /\ s \in consumers
  /\ lis[s].open
  /\ Exists(QueueName)
  /\ queues[QueueName].msgs # <<>>
  /\ IF lis[s].prefetch = 0 THEN TRUE
     ELSE Cardinality(unacked[s]) < lis[s].prefetch
  /\ LET msg == Head(queues[QueueName].msgs)
         message == JSONParse(msg.content)
     IN IF ~CanParse(msg.content)
        THEN /\ queues' = [queues EXCEPT ![QueueName].msgs = Tail(@)]
             /\ unacked' = [unacked EXCEPT ![s] = @ \cup {msg}]
             /\ UNCHANGED <<invocations, running, completed, acked>>
        ELSE /\ queues' = [queues EXCEPT ![QueueName].msgs = Tail(@)]
             /\ invocations' = invocations \cup
                                 {[s |-> s, id |-> msg.id, value |-> message]}
             /\ running' = [running EXCEPT
                  ![s] = IF kind = "async" THEN @ \cup {msg.id} ELSE @]
             /\ completed' = [completed EXCEPT
                  ![s] = CASE kind = "sync_ok" -> @ \cup {<<msg.id, "returned">>}
                           [] kind = "sync_throw" -> @ \cup {<<msg.id, "threw">>}
                           [] OTHER -> @]
             /\ IF kind = "sync_throw" \/ ResultIsPromise(kind)
                THEN /\ unacked' = [unacked EXCEPT ![s] = @ \cup {msg}]
                     /\ UNCHANGED acked
                ELSE /\ acked' = [acked EXCEPT ![s] = @ \cup {msg.id}]
                     /\ UNCHANGED unacked
  /\ UNCHANGED <<now, senderChannel, enq, channels, lis, consumers, aborted,
                 published>>

\* a pending handler promise settles; its finally callback calls
\* channel.ack(msg), which throws on a closed channel
HandlerSettle(s, h, outcome) ==
  /\ h \in running[s]
  /\ running' = [running EXCEPT ![s] = @ \ {h}]
  /\ completed' = [completed EXCEPT ![s] = @ \cup {<<h, outcome>>}]
  /\ IF lis[s].open /\ \E m \in unacked[s] : m.id = h
     THEN /\ unacked' = [unacked EXCEPT ![s] = {m \in @ : m.id # h}]
          /\ acked' = [acked EXCEPT ![s] = @ \cup {h}]
          /\ lis' = [lis EXCEPT ![s].inflight = @ \ {h}]
     ELSE UNCHANGED <<unacked, acked, lis>>
  /\ UNCHANGED <<now, senderChannel, enq, channels, queues, consumers,
                 aborted, invocations, published>>

\* ------------------------------------------------------------------- time
\* a delayed message is on its way: its enqueue() has been called and it has
\* not yet left its delay queue
InDelay(e) ==
  /\ enq[e].pc # "idle"
  /\ IsDelayed(enq[e].delay)
  /\ \/ enq[e].pc \in {"createChannel", "assertQueue"}
     \/ \E c \in DOMAIN channels : \E k \in DOMAIN channels[c].out :
          channels[c].out[k].msg.id = e
     \/ /\ Exists(TargetQueue(enq[e].delay))
        /\ \E k \in DOMAIN queues[TargetQueue(enq[e].delay)].msgs :
             queues[TargetQueue(enq[e].delay)].msgs[k].id = e

\* time is observed only through delays: the clock advances while a delayed
\* message is on its way
Tick ==
  /\ now < MaxTime
  /\ \E e \in Calls : InDelay(e)
  /\ now' = now + 1
  /\ UNCHANGED <<senderChannel, enq, channels, queues, lis, consumers, unacked,
                 running, completed, acked, aborted, invocations, published>>

\* the head of a queue with a TTL has expired: the broker routes it to the
\* queue's dead-letter routing key
DeadLetter(q) ==
  /\ Exists(q)
  /\ queues[q].args.messageTtl # <<>>
  /\ queues[q].msgs # <<>>
  /\ Head(queues[q].msgs).exp <= now
  /\ queues' = Route([queues EXCEPT ![q].msgs = Tail(@)],
                     queues[q].args.deadLetterRoutingKey,
                     Head(queues[q].msgs), now)
  /\ UNCHANGED <<now, senderChannel, enq, channels, lis, consumers, unacked,
                 running, completed, acked, aborted, invocations, published>>

DelayQueueNames == {TargetQueue(<<d>>) : d \in 1..MaxDelay}

Next ==
  \/ \E e \in Calls, i \in Instances, d \in Delays : EnqueueCall(e, i, d)
  \/ \E e \in Calls : SenderChannelCreated(e)
  \/ \E c \in 1..NumEnqueue : BrokerFrame(c)
  \/ \E s \in Sessions, g \in Signals : ListenCall(s, g)
  \/ \E s \in Sessions : ListenChannelCreated(s)
  \/ \E s \in Sessions : ListenQueueDeclared(s)
  \/ \E s \in Sessions : ListenPrefetchOk(s)
  \/ \E s \in Sessions : ListenConsumeOk(s)
  \/ \E g \in Signals : Abort(g)
  \/ \E s \in Sessions : CancelOk(s)
  \/ \E s \in Sessions : CloseOk(s)
  \/ \E s \in Sessions, kind \in HandlerKinds : Deliver(s, kind)
  \/ \E s \in Sessions, h \in Calls, outcome \in Outcomes :
       HandlerSettle(s, h, outcome)
  \/ Tick
  \/ \E q \in DelayQueueNames : DeadLetter(q)

Spec == Init /\ [][Next]_vars

\* the broker answers a cancel and a close it has received
Fairness == \A s \in Sessions : WF_vars(CancelOk(s)) /\ WF_vars(CloseOk(s))

\* the listen sessions with messages enqueued without a delay
LiveNext ==
  \/ \E e \in Calls, i \in Instances : EnqueueCall(e, i, <<>>)
  \/ \E e \in Calls : SenderChannelCreated(e)
  \/ \E c \in 1..NumEnqueue : BrokerFrame(c)
  \/ \E s \in Sessions, g \in Signals : ListenCall(s, g)
  \/ \E s \in Sessions : ListenChannelCreated(s)
  \/ \E s \in Sessions : ListenQueueDeclared(s)
  \/ \E s \in Sessions : ListenPrefetchOk(s)
  \/ \E s \in Sessions : ListenConsumeOk(s)
  \/ \E g \in Signals : Abort(g)
  \/ \E s \in Sessions : CancelOk(s)
  \/ \E s \in Sessions : CloseOk(s)
  \/ \E s \in Sessions, kind \in HandlerKinds : Deliver(s, kind)
  \/ \E s \in Sessions, h \in Calls, outcome \in Outcomes :
       HandlerSettle(s, h, outcome)

LiveSpec == Init /\ [][LiveNext]_vars /\ Fairness

\* the main queue as an earlier declaration with the other durability has
\* left it at the broker
ConflictingMainQueue ==
  [q \in {QueueName} |->
     [args |-> [MainQueueArgs EXCEPT !.durable = ~Durable], msgs |-> <<>>]]

\* what the broker may hold when the instance is constructed
BrokerStates == {<<>>, ConflictingMainQueue}

\* enqueue() calls alone, with any message, against a broker that may hold
\* the main queue with another durability
EnqueueInit ==
  /\ now = 0
  /\ senderChannel = [i \in Instances |-> 0]
  /\ enq = [e \in Calls |->
             [pc |-> "idle", payload |-> <<>>, delay |-> <<>>, inst |-> "",
              chan |-> 0, at |-> 0]]
  /\ channels = <<>>
  /\ queues \in BrokerStates
  /\ lis = [s \in Sessions |->
             [pc |-> "idle", sig |-> NoSignal, open |-> FALSE, prefetch |-> 0,
              tag |-> 0, cancelTag |-> 0, cancelSent |-> FALSE,
              cancelOk |-> FALSE, closeSent |-> FALSE, closed |-> FALSE,
              resolved |-> FALSE, inflight |-> {}]]
  /\ consumers = {}
  /\ unacked = [s \in Sessions |-> {}]
  /\ running = [s \in Sessions |-> {}]
  /\ completed = [s \in Sessions |-> {}]
  /\ acked = [s \in Sessions |-> {}]
  /\ aborted = [g \in Signals |-> FALSE]
  /\ invocations = {}
  /\ published = {}

EnqueueNext ==
  \/ \E e \in Calls, i \in Instances, d \in Delays :
       \E v \in Messages(e) : Enqueue(e, i, d, v)
  \/ \E e \in Calls : SenderChannelCreated(e)
  \/ \E c \in 1..NumEnqueue : BrokerFrame(c)

EnqueueSpec == EnqueueInit /\ [][EnqueueNext]_vars

\* a message whose body is not JSON, as another client of the broker may
\* publish to the main queue
Malformed == [id |-> 0, content |-> <<"{">>, exp |-> 0]

\* another client publishes the malformed message to the main queue
ForeignPublish ==
  /\ Exists(QueueName)
  /\ \A k \in DOMAIN queues[QueueName].msgs :
       queues[QueueName].msgs[k] # Malformed
  /\ \A s \in Sessions : Malformed \notin unacked[s]
  /\ queues' = Route(queues, QueueName, Malformed, now)
  /\ UNCHANGED <<now, senderChannel, enq, channels, lis, consumers, unacked,
                 running, completed, acked, aborted, invocations, published>>

\* the listen sessions on a main queue that receives a malformed message
ListenNext ==
  \/ \E s \in Sessions, g \in Signals : ListenCall(s, g)
  \/ \E s \in Sessions : ListenChannelCreated(s)
  \/ \E s \in Sessions : ListenQueueDeclared(s)
  \/ \E s \in Sessions : ListenPrefetchOk(s)
  \/ \E s \in Sessions : ListenConsumeOk(s)
  \/ \E g \in Signals : Abort(g)
  \/ \E s \in Sessions : CancelOk(s)
  \/ \E s \in Sessions : CloseOk(s)
  \/ \E s \in Sessions, kind \in HandlerKinds : Deliver(s, kind)
  \/ ForeignPublish

ListenSpec == Init /\ [][ListenNext]_vars

\* ------------------------------------------------------------- properties
InvokedBy(s) == {r.id : r \in {x \in invocations : x.s = s}}
InvocationsOf(e) == {r \in invocations : r.id = e}
MainMsgs == IF Exists(QueueName) THEN queues[QueueName].msgs ELSE <<>>
InMain(e) == \E k \in DOMAIN MainMsgs : MainMsgs[k].id = e
IsSuffix(a, b) ==
  /\ Len(a) <= Len(b)
  /\ a = SubSeq(b, Len(b) - Len(a) + 1, Len(b))

\* C1: a message enqueued with no delay is handled exactly once, with a
\* value equal to the one enqueued; stated here is that it is never handled a
\* second time and never with another value.
C1_HandledOnce ==
  \A e \in Calls :
    (enq[e].pc # "idle" /\ ~IsDelayed(enq[e].delay)) =>
      /\ Cardinality(InvocationsOf(e)) <= 1
      /\ \A r \in InvocationsOf(e) : r.value = Payload(e)

\* C2: a message enqueued with a positive delay d is published to a queue
\* other than the main queue, one whose TTL is d and whose dead letters go to
\* the main queue, and it is in the main queue, delivered or handled only once
\* d has elapsed since the enqueue call.
C2_NotBeforeDelay ==
  /\ \A r \in published :
       IsDelayed(enq[r.id].delay) =>
         /\ r.queue # QueueName
         /\ Exists(r.queue)
         /\ queues[r.queue].args.messageTtl = enq[r.id].delay
         /\ queues[r.queue].args.deadLetterRoutingKey = QueueName
  /\ \A e \in Calls :
       (IsDelayed(enq[e].delay)
          /\ (InMain(e) \/ InvocationsOf(e) # {}
                \/ \E s \in Sessions : \E m \in unacked[s] : m.id = e)) =>
         now >= enq[e].at + enq[e].delay[1]

C2_Witness ==
  \E r \in invocations : IsDelayed(enq[r.id].delay)

\* C3: a message a session has acknowledged is one whose handler has
\* completed: its handler is not pending, and it returned or its promise
\* settled.
C3_AckAfterHandler ==
  \A s \in Sessions : \A id \in acked[s] :
    /\ id \notin running[s]
    /\ \E o \in {"returned", "fulfilled", "rejected"} : <<id, o>> \in completed[s]

C3_Witness ==
  \E s \in Sessions : \E id \in acked[s] :
    /\ <<id, "fulfilled">> \in completed[s]
    /\ \E other \in acked[s] : <<other, "returned">> \in completed[s]

\* C4: every message whose handler has completed, whatever the outcome, has
\* been acknowledged by the session that handled it.
C4_AckedWhateverOutcome ==
  \A s \in Sessions : \A c \in completed[s] : c[1] \in acked[s]

\* C5: a listen channel holds at most one unacknowledged delivery, and a
\* session has at most one message it has handed to its handler and not yet
\* acknowledged, so no message is delivered before the previous one is
\* handled and acknowledged.
C5_OneAtATime ==
  \A s \in Sessions :
    /\ Cardinality(unacked[s]) <= 1
    /\ Cardinality(InvokedBy(s) \ acked[s]) <= 1
    /\ Cardinality(running[s]) <= 1

C5_Witness ==
  \E s \in Sessions : Cardinality(acked[s]) >= 2

\* C6: listen() resolves only after the channel is closed, the close is
\* requested only after the cancel is acknowledged, the cancel is requested
\* only after the signal has aborted, and the cancel names the session's tag.
C6_ShutdownOrder ==
  \A s \in Sessions :
    /\ lis[s].resolved => lis[s].closed
    /\ lis[s].closed => lis[s].closeSent
    /\ lis[s].closeSent => lis[s].cancelOk
    /\ lis[s].cancelOk => lis[s].cancelSent
    /\ lis[s].cancelSent => (lis[s].sig \in Signals /\ aborted[lis[s].sig]
                               /\ lis[s].cancelTag = lis[s].tag /\ lis[s].tag # 0)

C6_Witness ==
  \E s \in Sessions : lis[s].resolved /\ lis[s].closed /\ lis[s].cancelOk

\* C7: a handler that was processing a message when the signal aborted has
\* completed, and its message has been acknowledged, by the time the listen
\* channel is closed and listen() resolves.
C7_DrainedBeforeClose ==
  \A s \in Sessions : lis[s].closed => lis[s].inflight = {}

\* C8: once a session's cancel has been acknowledged its handler is not
\* invoked again, and neither the cancel nor the close takes a message out of
\* the main queue.
C8_NoDeliveryAfterCancel ==
  [][\A s \in Sessions :
       /\ lis[s].cancelOk =>
            {r \in invocations' : r.s = s} = {r \in invocations : r.s = s}
       /\ (lis[s].pc \in {"cancel", "close"} /\ lis'[s].pc # lis[s].pc) =>
            IsSuffix(MainMsgs, MainMsgs')]_vars

C8_Witness ==
  \E s \in Sessions :
    /\ lis[s].cancelOk
    /\ MainMsgs # <<>>
    /\ InvokedBy(s) # {}

\* C9: a subscribed session whose signal has aborted eventually has its
\* channel closed and its promise resolved; so does every session sharing
\* the signal.
C9_AbortLeadsToResolve ==
  \A s \in Sessions : lis[s].cancelSent ~> (lis[s].closed /\ lis[s].resolved)

C9_Witness ==
  \A s \in Sessions : lis[s].resolved

\* C10: an instance creates at most one publish channel, and every publish
\* of the instance goes through the channel it has cached.
C10_OneSenderChannel ==
  \A i \in Instances :
    /\ Cardinality({c \in DOMAIN channels : channels[c].inst = i}) <= 1
    /\ \A r \in published : r.inst = i => r.chan = senderChannel[i]

\* the #prepareQueue declaration of the main queue, as a frame
IsMainDeclare(f) == f.op = "declare" /\ f.queue = QueueName

\* C11: on a publish channel no publish and no delay-queue declaration is
\* issued while the main-queue declaration the getter started has not yet
\* completed: no frame is sent behind a main-queue declaration that the
\* broker has not processed.
C11_MainDeclaredBeforeUse ==
  \A c \in DOMAIN channels : \A k \in DOMAIN channels[c].out :
    IsMainDeclare(channels[c].out[k]) => k = Len(channels[c].out)

\* the number a string of decimal digits denotes
DigitValue(ch) == CHOOSE n \in 0..9 : DigitChars[n + 1] = ch

RECURSIVE DecimalValue(_)
DecimalValue(str) ==
  IF Len(str) = 1 THEN DigitValue(str[1])
  ELSE 10 * DecimalValue(SubSeq(str, 1, Len(str) - 1)) + DigitValue(str[Len(str)])

\* C12: a message enqueued with delay d > 0 is published to the queue named
\* by the prefix followed by the decimal digits of d (no leading zero), and
\* from the moment the publish is issued that queue exists at the broker,
\* declared with auto-delete on, message TTL d, dead letters routed through
\* the default exchange to the main queue, and the configured durability.
C12_DelayQueueDeclaredFirst ==
  \A r \in published :
    IsDelayed(enq[r.id].delay) =>
      LET d == enq[r.id].delay[1]
          digits == SubSeq(r.queue, Len(DelayedQueuePrefix) + 1, Len(r.queue))
      IN /\ SubSeq(r.queue, 1, Len(DelayedQueuePrefix)) = DelayedQueuePrefix
         /\ digits # <<>>
         /\ \A k \in DOMAIN digits : \E n \in 0..9 : DigitChars[n + 1] = digits[k]
         /\ digits[1] # "0"
         /\ DecimalValue(digits) = d
         /\ Exists(r.queue)
         /\ queues[r.queue].args.autoDelete
         /\ queues[r.queue].args.messageTtl = <<d>>
         /\ queues[r.queue].args.deadLetterExchange = <<"">>
         /\ queues[r.queue].args.deadLetterRoutingKey = QueueName
         /\ queues[r.queue].args.durable = Durable

C12_Witness ==
  \E r \in published :
    /\ IsDelayed(enq[r.id].delay)
    /\ Exists(r.queue)
    /\ \E k \in DOMAIN queues[r.queue].msgs : queues[r.queue].msgs[k].id = r.id

\* the call's delay is absent, zero or negative
NoDelay(e) == IF enq[e].delay = <<>> THEN TRUE ELSE enq[e].delay[1] <= 0

PublishedBy(e) == {r \in published : r.id = e}

\* C13: an enqueue whose delay is absent, zero or negative publishes to the
\* main queue, awaits no queue declaration, and its message is never in
\* another queue; an enqueue with a positive delay publishes to a queue other
\* than the main queue; no enqueue publishes twice, and one that has
\* fulfilled has published once.
C13_OneTargetQueue ==
  \A e \in Calls :
    enq[e].pc # "idle" =>
      /\ Cardinality(PublishedBy(e)) <= 1
      /\ enq[e].pc = "done" => Cardinality(PublishedBy(e)) = 1
      /\ \A c \in DOMAIN channels : \A k \in DOMAIN channels[c].out :
           channels[c].out[k].msg.id = e =>
             \E r \in PublishedBy(e) : r.queue = channels[c].out[k].queue
      /\ IF NoDelay(e)
         THEN /\ \A r \in PublishedBy(e) : r.queue = QueueName
              /\ enq[e].pc # "assertQueue"
              /\ \A c \in DOMAIN channels : \A k \in DOMAIN channels[c].out :
                   channels[c].out[k].waiter # e
              /\ \A q \in DOMAIN queues : \A k \in DOMAIN queues[q].msgs :
                   queues[q].msgs[k].id = e => q = QueueName
         ELSE \A r \in PublishedBy(e) : r.queue # QueueName

C13_Witness ==
  \E e1, e2 \in Calls :
    /\ enq[e1].pc = "done" /\ enq[e1].delay = <<0>> /\ InMain(e1)
    /\ enq[e2].pc = "done" /\ enq[e2].delay = <<-1>> /\ InMain(e2)
    /\ DOMAIN queues = {QueueName}

\* the message of call e is on its way to a handler: in a frame not yet
\* processed, in a queue, or delivered and not yet acknowledged
Held(e) ==
  \/ \E c \in DOMAIN channels : \E k \in DOMAIN channels[c].out :
       channels[c].out[k].msg.id = e
  \/ \E q \in DOMAIN queues : \E k \in DOMAIN queues[q].msgs :
       queues[q].msgs[k].id = e
  \/ \E s \in Sessions : \E m \in unacked[s] : m.id = e

\* C14: with two listen() loops on the main queue, every message enqueued
\* is handled by one of the loops and by no more than one: none is handed to
\* a handler twice (by the same loop or by both), and one that has been
\* enqueued and not yet handled is still on its way.
C14_HandledByExactlyOne ==
  (\A s \in Sessions : lis[s].pc # "idle") =>
    \A e \in Calls :
      /\ Cardinality(InvocationsOf(e)) <= 1
      /\ (enq[e].pc = "done" /\ InvocationsOf(e) = {}) => Held(e)

\* the delay queues the broker holds: the queues with a message TTL
DelayQueuesHeld == {q \in DOMAIN queues : queues[q].args.messageTtl # <<>>}

\* C15: every delay-queue declaration issued for delay d, by whichever call
\* and in whichever order, names the same queue (the prefix followed by the
\* decimal digits of d) with the same parameters, none conflicts with the
\* queue the broker already holds (no publish channel is closed over it),
\* and the broker holds at most one delay queue per d, and none for a delay
\* that was not enqueued.
C15_OneDelayQueuePerDelay ==
  /\ \A c \in DOMAIN channels :
       /\ ~channels[c].closed
       /\ \A k \in DOMAIN channels[c].out :
            LET f == channels[c].out[k] IN
            (f.op = "declare" /\ f.waiter # 0) =>
              LET d == enq[f.waiter].delay[1] IN
              /\ f.queue = DelayedQueuePrefix \o ToDecimal(d)
              /\ f.args = [durable |-> Durable, autoDelete |-> TRUE,
                           deadLetterExchange |-> <<"">>,
                           deadLetterRoutingKey |-> QueueName,
                           messageTtl |-> <<d>>]
              /\ Exists(f.queue) => queues[f.queue].args = f.args
  /\ \A q1, q2 \in DelayQueuesHeld :
       queues[q1].args.messageTtl = queues[q2].args.messageTtl => q1 = q2
  /\ \A q \in DelayQueuesHeld :
       /\ q = DelayedQueuePrefix \o ToDecimal(queues[q].args.messageTtl[1])
       /\ \E e \in Calls : enq[e].pc # "idle" /\ enq[e].delay = queues[q].args.messageTtl

C15_Witness ==
  \E e1, e2 \in Calls :
    /\ e1 # e2
    /\ IsDelayed(enq[e1].delay)
    /\ enq[e1].delay = enq[e2].delay
    /\ enq[e1].pc = "done" /\ enq[e2].pc = "done"
    /\ Cardinality(DelayQueuesHeld) = 1
    /\ \E q \in DelayQueuesHeld : Len(queues[q].msgs) = 2

\* C16: when the broker has refused the main-queue declaration of a publish
\* channel (the main queue exists with other arguments) and closed the
\* channel, the enqueue() call that created the channel, and so started the
\* declaration, has not fulfilled its promise.
C16_DeclareFailureSurfaced ==
  \A c \in DOMAIN channels :
    (channels[c].closed /\ Conflicts(queues, QueueName, MainQueueArgs)) =>
      enq[channels[c].creator].pc # "done"

\* C17: an enqueue() that has failed on serializing its message has had no
\* dealings with the broker: it has obtained no publish channel and created
\* none, and (its delay being positive) has had no delay queue declared.
C17_EncodeErrorBeforeBroker ==
  \A e \in Calls :
    enq[e].pc = "typeError" =>
      /\ enq[e].chan = 0
      /\ \A c \in DOMAIN channels : channels[c].creator # e
      /\ IsDelayed(enq[e].delay) => ~Exists(TargetQueue(enq[e].delay))

\* C18: a message whose handling has failed (its handler threw, its promise
\* rejected, or its content did not parse) has been acknowledged, and a
\* session with an open channel holds no unacknowledged delivery other than
\* one whose handler is still pending, so no failed message blocks the
\* deliveries behind it.
C18_FailureIsolated ==
  \A s \in Sessions :
    /\ \A c \in completed[s] :
         c[2] \in {"threw", "rejected"} => c[1] \in acked[s]
    /\ lis[s].open => \A m \in unacked[s] : m.id \in running[s]

\* C19: once #senderChannel of an instance is set, no step replaces or
\* clears it, whichever operation takes the step.
C19_SenderChannelKept ==
  [][\A i \in Instances :
       senderChannel[i] # 0 => senderChannel'[i] = senderChannel[i]]_vars

\* listen() of session s has been called, its signal has aborted, and its
\* abort listener has not run: the signal aborted before the listener was
\* registered
AbortedUnheard(s) ==
  /\ lis[s].sig \in Signals
  /\ aborted[lis[s].sig]
  /\ lis[s].pc \in {"createChannel", "assertQueue", "prefetch", "consume",
                    "subscribed"}

NoShutdown(l) ==
  ~l.cancelSent /\ ~l.cancelOk /\ ~l.closeSent /\ ~l.closed /\ ~l.resolved

\* C20: the abort listener of a session runs only once the session has its
\* channel, the declared queue, the prefetch limit and its consumer; a
\* session whose signal aborted before that stays as it is for ever: no
\* cancel and no close is issued, its promise does not settle, and once its
\* consumer is subscribed it stays subscribed on an open channel.
C20_ListenerAfterSubscribe ==
  [][\A s \in Sessions :
       /\ (lis'[s].cancelSent /\ ~lis[s].cancelSent) =>
            /\ lis[s].pc = "subscribed"
            /\ lis[s].open
            /\ Exists(QueueName)
            /\ lis[s].prefetch = PrefetchCount
            /\ s \in consumers
       /\ AbortedUnheard(s) =>
            /\ NoShutdown(lis[s])
            /\ NoShutdown(lis'[s])
            /\ AbortedUnheard(s)'
            /\ lis[s].pc = "subscribed" =>
                 /\ lis'[s].pc = "subscribed"
                 /\ lis[s].open /\ lis'[s].open
                 /\ s \in consumers /\ s \in consumers']_vars

C20_Witness ==
  \E s1, s2 \in Sessions :
    /\ lis[s1].pc = "subscribed" /\ aborted[lis[s1].sig] /\ s1 \in consumers
    /\ InvokedBy(s1) # {}
    /\ lis[s2].resolved /\ lis[s2].sig = lis[s1].sig

====
